---- MODULE Spec2Model ----
(***************************************************************************)
(* A model of src/rbtree.rs: the left-leaning red-black binary search tree *)
(* RedBlackBST<K, V>, and of src/kdtree.rs: the 2d-tree KdTree<Point2D, V>  *)
(* with the brute-force PointSet of src/primitive.rs.  A NodeCell           *)
(* (Option<Box<Node>>) is a sequence of length 0 (None) or 1 (Some(node)); *)
(* a Node is a record.  Every recursive function of the source is a        *)
(* RECURSIVE operator computed the same way.                               *)
(***************************************************************************)
EXTENDS Integers, Sequences, FiniteSets, TLC

\* ---- bounds of the model ------------------------------------------------
MaxKey == 4        \* keys of the mixed put/delete workload are 1..MaxKey
MaxVal == 2        \* values are 1..MaxVal
MaxPutKey == 7     \* keys of the insertion-only workload are 1..MaxPutKey
MaxCoord == 2      \* Point2D coordinates are 0..MaxCoord
MaxKdSize == 4     \* a KdTree of the put-only workload holds at most
                   \* MaxKdSize points
MaxKdDelSize == 3  \* a KdTree of the put/delete workload holds at most
                   \* MaxKdDelSize points
MaxKdDepth == 3    \* and its nodes' depth fields are at most MaxKdDepth

\* number of ascending puts of test_red_black_tree_shape (for c in 0..255)
ShapeN == 255

Keys == 1..MaxKey
Vals == 1..MaxVal
PutKeys == 1..MaxPutKey

\* ---- Color, NodeCell, Node ----------------------------------------------
Red == "Red"
Black == "Black"

None == <<>>
Some(n) == <<n>>

Node_new(key, val, color) ==
    [key |-> key, val |-> val, left |-> None, right |-> None, color |-> color]

max(a, b) == IF a >= b THEN a ELSE b

Node_is_red(n) == n.color = Red

is_red(x) == IF x = None THEN FALSE ELSE x[1].color = Red

RECURSIVE Node_depth(_)
Node_depth(n) ==
    LET lsz == IF n.left = None THEN 0 ELSE Node_depth(n.left[1])
        rsz == IF n.right = None THEN 0 ELSE Node_depth(n.right[1])
    IN  max(lsz, rsz) + 1

RECURSIVE Node_size(_)
Node_size(n) ==
    1 + (IF n.left = None THEN 0 ELSE Node_size(n.left[1]))
      + (IF n.right = None THEN 0 ELSE Node_size(n.right[1]))

\* ---- balancing primitives -----------------------------------------------
\* Each primitive starts with assert!s; XXX_pre is the conjunction of them,
\* XXX is the effect when they hold.
rotate_left_pre(h) == is_red(h.right)

\* rotate_left as rotate_right was copied: the old node goes to the right
rotate_left_mirrored(h) ==
    LET x == h.right[1]
        old_self == [h EXCEPT !.right = x.left, !.color = Red]
    IN  [x EXCEPT !.color = h.color, !.right = Some(old_self)]

\* rotate_left that leaves the node as it is
rotate_left_skipped(h) == h

rotate_left(h) ==
    LET x == h.right[1]
        old_self == [h EXCEPT !.right = x.left, !.color = Red]
    IN  [x EXCEPT !.color = h.color, !.left = Some(old_self)]

rotate_right_pre(h) == is_red(h.left)

rotate_right(h) ==
    LET x == h.left[1]
        old_self == [h EXCEPT !.left = x.right, !.color = Red]
    IN  [x EXCEPT !.color = h.color, !.right = Some(old_self)]

flip_color_pre(h) == ~Node_is_red(h) /\ is_red(h.left) /\ is_red(h.right)

\* flip_color that forgets to recolor the right child
flip_color_left_only(h) ==
    [h EXCEPT !.color = Red,
              !.left = IF h.left = None THEN None
                       ELSE Some([h.left[1] EXCEPT !.color = Black])]

\* flip_color that recolors the node but neither child
flip_color_self_only(h) == [h EXCEPT !.color = Red]

flip_color(h) ==
    [h EXCEPT !.color = Red,
              !.left = IF h.left = None THEN None
                       ELSE Some([h.left[1] EXCEPT !.color = Black]),
              !.right = IF h.right = None THEN None
                        ELSE Some([h.right[1] EXCEPT !.color = Black])]

\* ---- put ----------------------------------------------------------------
\* The result is [cell, ok]: ok is FALSE when an assert! of a balancing
\* primitive failed somewhere in the recursion (the call panics).
RECURSIVE put(_, _, _)
put(x, key, val) ==
    IF x = None THEN [cell |-> Some(Node_new(key, val, Red)), ok |-> TRUE]
    ELSE
      LET n == x[1]
          sub == IF key < n.key THEN put(n.left, key, val)
                 ELSE IF key > n.key THEN put(n.right, key, val)
                 ELSE [cell |-> None, ok |-> TRUE]
          n0 == IF key < n.key THEN [n EXCEPT !.left = sub.cell]
                ELSE IF key > n.key THEN [n EXCEPT !.right = sub.cell]
                ELSE [n EXCEPT !.val = val]
          c1 == is_red(n0.right) /\ ~is_red(n0.left)
          ok1 == c1 => rotate_left_pre(n0)
          n1 == IF c1 /\ ok1 THEN rotate_left(n0) ELSE n0
          c2 == is_red(n1.left) /\ is_red(n1.left[1].left)
          ok2 == c2 => rotate_right_pre(n1)
          n2 == IF c2 /\ ok2 THEN rotate_right(n1) ELSE n1
          c3 == is_red(n2.left) /\ is_red(n2.right)
          ok3 == c3 => flip_color_pre(n2)
          n3 == IF c3 /\ ok3 THEN flip_color(n2) ELSE n2
      IN  IF ~sub.ok THEN [cell |-> None, ok |-> FALSE]
          ELSE IF ~(ok1 /\ ok2 /\ ok3) THEN [cell |-> None, ok |-> FALSE]
          ELSE [cell |-> Some(n3), ok |-> TRUE]

\* ---- delete_min / delete_max helpers: return <<top, deleted>> -----------
RECURSIVE delete_min(_)
delete_min(x) ==
    IF x = None THEN <<None, None>>
    ELSE LET n == x[1] IN
         IF n.left = None THEN <<n.right, Some([n EXCEPT !.right = None])>>
         ELSE LET r == delete_min(n.left)
              IN  <<Some([n EXCEPT !.left = r[1]]), r[2]>>

\* delete_max that drops the left subtree of the maximum
RECURSIVE delete_max_drop(_)
delete_max_drop(x) ==
    IF x = None THEN <<None, None>>
    ELSE LET n == x[1] IN
         IF n.right = None THEN <<None, Some([n EXCEPT !.left = None])>>
         ELSE LET r == delete_max_drop(n.right)
              IN  <<Some([n EXCEPT !.right = r[1]]), r[2]>>

RECURSIVE delete_max(_)
delete_max(x) ==
    IF x = None THEN <<None, None>>
    ELSE LET n == x[1] IN
         IF n.right = None THEN <<n.left, Some([n EXCEPT !.left = None])>>
         ELSE LET r == delete_max(n.right)
              IN  <<Some([n EXCEPT !.right = r[1]]), r[2]>>

\* ---- delete -------------------------------------------------------------
\* delete without `x.left = t.left.take()`: the replacement keeps its own
\* (absent) left link
RECURSIVE delete_no_left(_, _)
delete_no_left(x, key) ==
    IF x = None THEN None
    ELSE LET n == x[1] IN
         IF key < n.key THEN Some([n EXCEPT !.left = delete_no_left(n.left, key)])
         ELSE IF key > n.key
              THEN Some([n EXCEPT !.right = delete_no_left(n.right, key)])
         ELSE IF n.right = None THEN n.left
         ELSE IF n.left = None THEN n.right
         ELSE LET r == delete_min(n.right)
              IN  Some([r[2][1] EXCEPT !.right = r[1]])

\* delete whose Greater arm was copied from the Less arm and takes x.left
RECURSIVE delete_copied_arm(_, _)
delete_copied_arm(x, key) ==
    IF x = None THEN None
    ELSE LET n == x[1] IN
         IF key < n.key
         THEN Some([n EXCEPT !.left = delete_copied_arm(n.left, key)])
         ELSE IF key > n.key
              THEN Some([n EXCEPT !.left = None,
                                  !.right = delete_copied_arm(n.left, key)])
         ELSE IF n.right = None THEN n.left
         ELSE IF n.left = None THEN n.right
         ELSE LET r == delete_min(n.right)
              IN  Some([r[2][1] EXCEPT !.right = r[1], !.left = n.left])

RECURSIVE delete(_, _)
delete(x, key) ==
    IF x = None THEN None
    ELSE LET n == x[1] IN
         IF key < n.key THEN Some([n EXCEPT !.left = delete(n.left, key)])
         ELSE IF key > n.key THEN Some([n EXCEPT !.right = delete(n.right, key)])
         ELSE IF n.right = None THEN n.left
         ELSE IF n.left = None THEN n.right
         ELSE LET r == delete_min(n.right)
              IN  Some([r[2][1] EXCEPT !.right = r[1], !.left = n.left])

\* ---- queries ------------------------------------------------------------
depth(root_) == IF root_ = None THEN 0 ELSE Node_depth(root_[1])

size(root_) == IF root_ = None THEN 0 ELSE Node_size(root_[1])

\* get: the while loop of the source, one iteration per recursion step;
\* the result is an Option (None / Some(val))
RECURSIVE get(_, _)
get(x, key) ==
    IF x = None THEN None
    ELSE IF key < x[1].key THEN get(x[1].left, key)
    ELSE IF key > x[1].key THEN get(x[1].right, key)
    ELSE Some(x[1].val)

contains(root_, key) == get(root_, key) # None

\* rank_helper whose Equal arm counts the node itself
RECURSIVE rank_helper_counts_equal(_, _)
rank_helper_counts_equal(x, key) ==
    IF x = None THEN 0
    ELSE IF key < x[1].key THEN rank_helper_counts_equal(x[1].left, key)
    ELSE IF key > x[1].key THEN
         1 + (IF x[1].left = None THEN 0 ELSE Node_size(x[1].left[1]))
           + rank_helper_counts_equal(x[1].right, key)
    ELSE 1 + (IF x[1].left = None THEN 0 ELSE Node_size(x[1].left[1]))

\* rank_helper that does not count the node itself in the Greater arm
RECURSIVE rank_helper_no_self(_, _)
rank_helper_no_self(x, key) ==
    IF x = None THEN 0
    ELSE IF key < x[1].key THEN rank_helper_no_self(x[1].left, key)
    ELSE IF key > x[1].key THEN
         (IF x[1].left = None THEN 0 ELSE Node_size(x[1].left[1]))
           + rank_helper_no_self(x[1].right, key)
    ELSE IF x[1].left = None THEN 0 ELSE Node_size(x[1].left[1])

RECURSIVE rank_helper(_, _)
rank_helper(x, key) ==
    IF x = None THEN 0
    ELSE IF key < x[1].key THEN rank_helper(x[1].left, key)
    ELSE IF key > x[1].key THEN
         1 + (IF x[1].left = None THEN 0 ELSE Node_size(x[1].left[1]))
           + rank_helper(x[1].right, key)
    ELSE IF x[1].left = None THEN 0 ELSE Node_size(x[1].left[1])

rank(root_, key) == rank_helper(root_, key)

\* keys: the in-order traversal, as the sequence the iterator yields
\* inorder that pushes the node's key before visiting its left subtree
RECURSIVE inorder_self_first(_)
inorder_self_first(x) ==
    IF x = None THEN <<>>
    ELSE <<x[1].key>> \o inorder_self_first(x[1].left)
                      \o inorder_self_first(x[1].right)

RECURSIVE inorder(_)
inorder(x) ==
    IF x = None THEN <<>>
    ELSE inorder(x[1].left) \o <<x[1].key>> \o inorder(x[1].right)

keys(root_) == inorder(root_)

\* select: the first key of keys() whose rank is k
select(root_, k) ==
    LET ks == keys(root_)
        hits == {i \in 1..Len(ks) : rank(root_, ks[i]) = k}
    IN  IF hits = {} THEN None
        ELSE Some(ks[CHOOSE i \in hits : \A j \in hits : i <= j])

\* floor that takes the node itself when key is greater, without looking
\* into the right subtree
RECURSIVE floor_no_right(_, _)
floor_no_right(x, key) ==
    IF x = None THEN None
    ELSE IF key = x[1].key THEN x
    ELSE IF key < x[1].key THEN floor_no_right(x[1].left, key)
    ELSE x

\* floor / ceiling helpers: the link to the node found, or None
RECURSIVE floor(_, _)
floor(x, key) ==
    IF x = None THEN None
    ELSE IF key = x[1].key THEN x
    ELSE IF key < x[1].key THEN floor(x[1].left, key)
    ELSE LET t == floor(x[1].right, key)
         IN  IF t # None THEN t ELSE x

RECURSIVE ceiling(_, _)
ceiling(x, key) ==
    IF x = None THEN None
    ELSE IF key = x[1].key THEN x
    ELSE IF key > x[1].key THEN ceiling(x[1].right, key)
    ELSE LET t == ceiling(x[1].left, key)
         IN  IF t # None THEN t ELSE x

RedBlackBST_floor(root_, key) ==
    LET x == floor(root_, key) IN IF x # None THEN Some(x[1].key) ELSE None

RedBlackBST_ceiling(root_, key) ==
    LET x == ceiling(root_, key) IN IF x # None THEN Some(x[1].key) ELSE None

RECURSIVE find_max(_)
find_max(x) ==
    IF x = None THEN None
    ELSE IF x[1].right = None THEN x ELSE find_max(x[1].right)

RECURSIVE find_min(_)
find_min(x) ==
    IF x = None THEN None
    ELSE IF x[1].left = None THEN x ELSE find_min(x[1].left)

RedBlackBST_min(root_) ==
    LET x == find_min(root_) IN IF x # None THEN Some(x[1].key) ELSE None

RedBlackBST_max(root_) ==
    LET x == find_max(root_) IN IF x # None THEN Some(x[1].key) ELSE None

\* ---- the program state --------------------------------------------------
VARIABLES root,      \* RedBlackBST.root
          panicked,  \* an assert! failed and the call unwound
          op         \* the last public call: its name and arguments, whether
                     \* its key (or any key, for delete_min/max) was stored
                     \* before it (had) and whether that key's node had two
                     \* children (two)
VARIABLES kroot,     \* KdTree.root
          kput,      \* the <<point, value>> pairs put into the KdTree, the
                     \* last value of each point (kept by the put-only
                     \* workload; the put/delete workload leaves it empty)
          kop        \* the last public call on the KdTree

vars == <<root, panicked, op, kroot, kput, kop>>

kvars == <<kroot, kput, kop>>

rvars == <<root, panicked, op>>

KNoOp == [name |-> "new", key |-> <<0, 0>>, val |-> 0]

NoOp == [name |-> "new", key |-> 0, val |-> 0, had |-> FALSE, two |-> FALSE]

\* the link to the node that stores key (None when no node does)
RECURSIVE LinkOf(_, _)
LinkOf(x, key) ==
    IF x = None THEN None
    ELSE IF key < x[1].key THEN LinkOf(x[1].left, key)
    ELSE IF key > x[1].key THEN LinkOf(x[1].right, key)
    ELSE x

\* the node that stores key has a left and a right child
TwoChildren(x, key) ==
    LET t == LinkOf(x, key)
    IN  t # None /\ t[1].left # None /\ t[1].right # None

\* RedBlackBST::new
Init ==
    /\ root = None /\ panicked = FALSE /\ op = NoOp
    /\ kroot = None /\ kput = {} /\ kop = KNoOp

\* RedBlackBST::put without `self.root.as_mut().unwrap().color = Black`
PutCall_keeps_color(nm, k, v) ==
    /\ ~panicked
    /\ LET r == put(root, k, v)
       IN  IF r.ok
           THEN /\ root' = r.cell
                /\ panicked' = FALSE
           ELSE /\ root' = None
                /\ panicked' = TRUE
    /\ op' = [name |-> nm, key |-> k, val |-> v,
              had |-> contains(root, k),
              two |-> TwoChildren(root, k)]
    /\ UNCHANGED kvars

\* RedBlackBST::put(key, val) called as the operation named nm
PutCall(nm, k, v) ==
    /\ ~panicked
    /\ LET r == put(root, k, v)
       IN  IF r.ok
           THEN /\ root' = Some([r.cell[1] EXCEPT !.color = Black])
                /\ panicked' = FALSE
           ELSE /\ root' = None      \* self.root.take() ran before the panic
                /\ panicked' = TRUE
    /\ op' = [name |-> nm, key |-> k, val |-> v,
              had |-> contains(root, k),
              two |-> TwoChildren(root, k)]
    /\ UNCHANGED kvars

Put == \E k \in Keys, v \in Vals : PutCall("put", k, v)

\* RedBlackBST::delete(&key)
Delete ==
    \E k \in Keys :
      /\ ~panicked
      /\ root' = delete(root, k)
      /\ panicked' = FALSE
      /\ op' = [name |-> "delete", key |-> k, val |-> 0,
                had |-> contains(root, k),
                two |-> TwoChildren(root, k)]
      /\ UNCHANGED kvars

\* RedBlackBST::delete_min
DeleteMin ==
    /\ ~panicked
    /\ root' = delete_min(root)[1]
    /\ panicked' = FALSE
    /\ op' = [name |-> "delete_min", key |-> 0, val |-> 0,
              had |-> root # None, two |-> FALSE]
    /\ UNCHANGED kvars

\* RedBlackBST::delete_max
DeleteMax ==
    /\ ~panicked
    /\ root' = delete_max(root)[1]
    /\ panicked' = FALSE
    /\ op' = [name |-> "delete_max", key |-> 0, val |-> 0,
              had |-> root # None, two |-> FALSE]
    /\ UNCHANGED kvars

Next == Put \/ Delete \/ DeleteMin \/ DeleteMax

\* any sequence of put, delete, delete_min, delete_max
Spec == Init /\ [][Next]_vars

\* ---- insertion-only workloads -------------------------------------------
\* puts of arbitrary keys in arbitrary order (the shape of the tree does not
\* depend on the values: every put stores the value 1)
PutOnly ==
    /\ op.name # "put_asc"
    /\ \E k \in PutKeys : PutCall("put", k, 1)

\* test_red_black_tree_shape: for c in 0..255 { t.put(c, ()) }; the unit
\* value is 0 and c is the number of puts made so far
PutAsc ==
    /\ op.name \in {"new", "put_asc"}
    /\ size(root) < ShapeN
    /\ PutCall("put_asc", size(root), 0)

NextPut == PutOnly \/ PutAsc

SpecPut == Init /\ [][NextPut]_vars

\* ---- src/kdtree.rs: Point, Node -----------------------------------------
\* A Point2D is <<x, y>> with integer coordinates (exact as f64).
Coords == 0..MaxCoord
Points == Coords \X Coords

\* Point::dimension
Dimension == 2

\* Point::get for Point2D (d is always depth % Dimension, so never panics)
Point_get(p, d) == IF d = 0 THEN p[1] ELSE p[2]

Kd_Node_new(key, val, depth_) ==
    [key |-> key, val |-> val, left |-> None, right |-> None, depth |-> depth_]

RECURSIVE Kd_Node_size(_)
Kd_Node_size(n) ==
    1 + (IF n.left # None THEN Kd_Node_size(n.left[1]) ELSE 0)
      + (IF n.right # None THEN Kd_Node_size(n.right[1]) ELSE 0)

comparator_for_current_dim(n) == Point_get(n.key, n.depth % Dimension)

\* ---- kdtree put ---------------------------------------------------------
\* kd_put_loop is the `loop` of put at node n, entered with dimension dim
RECURSIVE kd_put(_, _, _, _)
RECURSIVE kd_put_loop(_, _, _, _, _)
kd_put_loop(n, key, val, current_dim, dim) ==
    IF Point_get(key, dim) < Point_get(n.key, dim)
    THEN [n EXCEPT !.left = kd_put(n.left, key, val, n.depth + 1)]
    ELSE IF Point_get(key, dim) > Point_get(n.key, dim)
    THEN [n EXCEPT !.right = kd_put(n.right, key, val, n.depth + 1)]
    ELSE LET dim2 == (dim + 1) % Dimension
         IN  IF dim2 = current_dim THEN [n EXCEPT !.val = val]
             ELSE kd_put_loop(n, key, val, current_dim, dim2)

kd_put(x, key, val, depth_) ==
    IF x = None THEN Some(Kd_Node_new(key, val, depth_))
    ELSE LET current_dim == x[1].depth % Dimension
         IN  Some(kd_put_loop(x[1], key, val, current_dim, current_dim))

\* ---- kdtree delete_min, delete ------------------------------------------
RECURSIVE kd_delete_min(_)
kd_delete_min(x) ==
    IF x = None THEN <<None, None>>
    ELSE LET n == x[1] IN
         IF n.left = None THEN <<n.right, Some([n EXCEPT !.right = None])>>
         ELSE LET r == kd_delete_min(n.left)
              IN  <<Some([n EXCEPT !.left = r[1]]), r[2]>>

RECURSIVE kd_delete(_, _)
kd_delete(x, key) ==
    IF x = None THEN None
    ELSE LET n == x[1]
             dim == n.depth % Dimension
         IN  IF Point_get(key, dim) < Point_get(n.key, dim)
             THEN Some([n EXCEPT !.left = kd_delete(n.left, key)])
             ELSE IF Point_get(key, dim) > Point_get(n.key, dim)
             THEN Some([n EXCEPT !.right = kd_delete(n.right, key)])
             ELSE IF n.right = None THEN n.left
             ELSE IF n.left = None THEN n.right
             ELSE LET r == kd_delete_min(n.right)
                  IN  Some([r[2][1] EXCEPT !.right = r[1], !.left = n.left])

\* ---- KdTree queries -----------------------------------------------------
\* KdTree::get.  The result is [panic, val]: panic is TRUE when
\* `x.as_ref().unwrap()` ran on an absent root; val is the Option returned.
\* current_dim is computed once, from the root, before the while loop.
RECURSIVE kd_get_loop(_, _, _, _)
RECURSIVE kd_get_while(_, _, _)
kd_get_loop(x, key, current_dim, dim) ==
    IF Point_get(key, dim) < Point_get(x[1].key, dim)
    THEN kd_get_while(x[1].left, key, current_dim)
    ELSE IF Point_get(key, dim) > Point_get(x[1].key, dim)
    THEN kd_get_while(x[1].right, key, current_dim)
    ELSE LET dim2 == (dim + 1) % Dimension
         IN  IF dim2 = current_dim THEN Some(x[1].val)
             ELSE kd_get_loop(x, key, current_dim, dim2)

kd_get_while(x, key, current_dim) ==
    IF x = None THEN None ELSE kd_get_loop(x, key, current_dim, current_dim)

KdTree_get(root_, key) ==
    IF root_ = None THEN [panic |-> TRUE, val |-> None]
    ELSE [panic |-> FALSE,
          val |-> kd_get_while(root_, key, root_[1].depth % Dimension)]

\* KdTree::contains: [panic, res]
KdTree_contains(root_, key) ==
    LET g == KdTree_get(root_, key)
    IN  [panic |-> g.panic, res |-> g.val # None]

KdTree_size(root_) == IF root_ = None THEN 0 ELSE Kd_Node_size(root_[1])

RECURSIVE kd_inorder(_)
kd_inorder(x) ==
    IF x = None THEN <<>>
    ELSE kd_inorder(x[1].left) \o <<x[1].key>> \o kd_inorder(x[1].right)

KdTree_keys(root_) == kd_inorder(root_)

\* ---- src/primitive.rs ---------------------------------------------------
\* a RectHV is [xmin, ymin, xmax, ymax]
RectHV_contains(rect, p) ==
    p[1] >= rect.xmin /\ p[2] >= rect.ymin /\ p[1] <= rect.xmax /\ p[2] <= rect.ymax

\* Point2D::distance_squared_to
distance_squared_to(p, that) ==
    (p[1] - that[1]) * (p[1] - that[1]) + (p[2] - that[2]) * (p[2] - that[2])

\* Distances are kept squared: distance_to is sqrt(distance_squared_to), and
\* on these small integers d1 < d2 between two distances, or between a
\* coordinate difference and a distance, is decided by the squares.
\* DistMax stands for f64::MAX: larger than every squared distance here.
DistMax == 2 * (MaxCoord + 1) * (MaxCoord + 1) + 1

abs(a) == IF a < 0 THEN 0 - a ELSE a

\* ---- KdTree::range_search -----------------------------------------------
\* The while loop over the stack of links; the result is the sequence of
\* keys pushed to `result`.
RECURSIVE range_search_loop(_, _, _)
range_search_loop(stack, result, rect) ==
    IF stack = <<>> THEN result
    ELSE LET x == stack[Len(stack)]
             rest == SubSeq(stack, 1, Len(stack) - 1)
         IN  IF x = None THEN range_search_loop(rest, result, rect)
             ELSE LET n == x[1]
                      dim == n.depth % 2
                      result1 == IF RectHV_contains(rect, n.key)
                                 THEN Append(result, n.key) ELSE result
                      lo == IF dim = 0 THEN rect.xmin ELSE rect.ymin
                      hi == IF dim = 0 THEN rect.xmax ELSE rect.ymax
                      s1 == IF lo < comparator_for_current_dim(n)
                            THEN Append(rest, n.left) ELSE rest
                      s2 == IF hi > comparator_for_current_dim(n)
                            THEN Append(s1, n.right) ELSE s1
                  IN  range_search_loop(s2, result1, rect)

KdTree_range_search(root_, rect) == range_search_loop(<<root_>>, <<>>, rect)

KdTree_range_count(root_, rect) == Len(KdTree_range_search(root_, rect))

\* ---- KdTree::nearest ----------------------------------------------------
\* The while loop over the FIFO queue of links, with `result` (an Option)
\* and min_distance (squared).
RECURSIVE nearest_loop(_, _, _, _)
nearest_loop(queue, result, min_distance, p) ==
    IF queue = <<>> THEN result
    ELSE LET x == Head(queue)
             rest == Tail(queue)
         IN  IF x = None THEN nearest_loop(rest, result, min_distance, p)
             ELSE LET n == x[1]
                      dim == n.depth % 2
                      dist == distance_squared_to(n.key, p)
                      closer == dist < min_distance
                      result1 == IF closer THEN Some(n.key) ELSE result
                      min1 == IF closer THEN dist ELSE min_distance
                      \* the coordinate the split is on, and the other one
                      on == IF dim = 0 THEN 1 ELSE 2
                      off == IF dim = 0 THEN 2 ELSE 1
                      near == IF p[on] < n.key[on] THEN n.left ELSE n.right
                      far == IF p[on] < n.key[on] THEN n.right ELSE n.left
                      q1 == Append(rest, near)
                      q2 == IF far # None
                            THEN LET perpendicular_len == abs(p[off] - far[1].key[off])
                                 IN  IF perpendicular_len * perpendicular_len < min1
                                     THEN Append(q1, far) ELSE q1
                            ELSE q1
                  IN  nearest_loop(q2, result1, min1, p)

KdTree_nearest(root_, p) == nearest_loop(<<root_>>, None, DistMax, p)

\* ---- PointSet (brute force over pset.keys()) -----------------------------
\* pts is the sequence pset.keys() yields
RECURSIVE PointSet_range_search(_, _)
PointSet_range_search(pts, rect) ==
    IF pts = <<>> THEN <<>>
    ELSE (IF RectHV_contains(rect, Head(pts)) THEN <<Head(pts)>> ELSE <<>>)
         \o PointSet_range_search(Tail(pts), rect)

RECURSIVE PointSet_nearest_loop(_, _, _, _)
PointSet_nearest_loop(pts, result, min_distance, p) ==
    IF pts = <<>> THEN result
    ELSE LET dist == distance_squared_to(p, Head(pts))
         IN  IF dist < min_distance
             THEN PointSet_nearest_loop(Tail(pts), Some(Head(pts)), dist, p)
             ELSE PointSet_nearest_loop(Tail(pts), result, min_distance, p)

PointSet_nearest(pts, p) == PointSet_nearest_loop(pts, None, DistMax, p)

\* ---- KdTree operations --------------------------------------------------
\* KdTree::put(key, val)
KdPutCall(p, v) ==
    /\ kroot' = kd_put(kroot, p, v, 0)
    /\ kop' = [name |-> "put", key |-> p, val |-> v]
    /\ UNCHANGED rvars

\* a put of a new point while there is room, or of a point put before
KdPut ==
    \E p \in Points, v \in Vals :
      /\ KdTree_size(kroot) < MaxKdSize \/ p \in {q[1] : q \in kput}
      /\ KdPutCall(p, v)
      /\ kput' = {q \in kput : q[1] # p} \cup {<<p, v>>}

\* the largest depth field below link x (0 on an absent link)
RECURSIVE kd_depth_fields(_)
kd_depth_fields(x) ==
    IF x = None THEN {0}
    ELSE {x[1].depth} \cup kd_depth_fields(x[1].left)
                      \cup kd_depth_fields(x[1].right)

\* the puts of the put/delete workload (every put stores the value 1).  A
\* node that a delete moved up keeps its depth field, so the fields grow
\* without bound over put/delete sequences: puts that would store a depth
\* above MaxKdDepth are left out.
KdPutSmall ==
    \E p \in Points :
      /\ KdTree_size(kroot) < MaxKdDelSize
      /\ \A dd \in kd_depth_fields(kd_put(kroot, p, 1, 0)) : dd <= MaxKdDepth
      /\ KdPutCall(p, 1)
      /\ UNCHANGED kput

\* KdTree::delete(&key)
KdDelete ==
    \E p \in Points :
      /\ kroot' = kd_delete(kroot, p)
      /\ UNCHANGED kput
      /\ kop' = [name |-> "delete", key |-> p, val |-> 0]
      /\ UNCHANGED rvars

\* any sequence of KdTree put calls
NextKdPut == KdPut

SpecKdPut == Init /\ [][NextKdPut]_vars

\* any sequence of KdTree put and delete calls
NextKd == KdPutSmall \/ KdDelete

SpecKd == Init /\ [][NextKd]_vars

\* ---- vocabulary of the properties ---------------------------------------
RECURSIVE KeysOf(_)
KeysOf(x) ==
    IF x = None THEN {}
    ELSE KeysOf(x[1].left) \cup {x[1].key} \cup KeysOf(x[1].right)

\* the stored <<key, value>> pairs
RECURSIVE Pairs(_)
Pairs(x) ==
    IF x = None THEN {}
    ELSE Pairs(x[1].left) \cup {<<x[1].key, x[1].val>>} \cup Pairs(x[1].right)

RECURSIVE Ordered(_)
Ordered(x) ==
    \/ x = None
    \/ /\ \A k \in KeysOf(x[1].left) : k < x[1].key
       /\ \A k \in KeysOf(x[1].right) : k > x[1].key
       /\ Ordered(x[1].left)
       /\ Ordered(x[1].right)

\* the numbers of Black nodes on the paths from x to an absent link
RECURSIVE BlackCounts(_)
BlackCounts(x) ==
    IF x = None THEN {0}
    ELSE LET b == IF x[1].color = Black THEN 1 ELSE 0
         IN  {c + b : c \in BlackCounts(x[1].left) \cup BlackCounts(x[1].right)}

BlackBalanced(x) == Cardinality(BlackCounts(x)) = 1

RECURSIVE NoRedRed(_)
NoRedRed(x) ==
    \/ x = None
    \/ /\ is_red(x) => ~is_red(x[1].left) /\ ~is_red(x[1].right)
       /\ NoRedRed(x[1].left)
       /\ NoRedRed(x[1].right)

RECURSIVE HasRed(_)
HasRed(x) == x # None /\ (is_red(x) \/ HasRed(x[1].left) \/ HasRed(x[1].right))

IsPut(o) == o.name \in {"put", "put_asc"}

\* keys the queries are asked about: the stored ones and one beyond each end
QueryKeys == 0..(MaxKey + 1)

----------------------------------------------------------------------------
\* C1: in every state reachable by put, delete, delete_min and delete_max,
\* every node's key is strictly greater than every key of its left subtree
\* and strictly less than every key of its right subtree.
BSTOrder == Ordered(root)

\* a deletion has just removed a key from a tree that still has three keys
BSTOrderWitness ==
    op.name = "delete" /\ op.had /\ size(root) >= 3 /\ depth(root) >= 3

\* C2: a put in any reachable state completes without a failed assert! of
\* rotate_left, rotate_right or flip_color.
PutNeverPanics == ~panicked

\* C3: after any sequence of put calls alone no Red node has a Red child and
\* every path from the root to an absent link has the same number of Black
\* nodes.
PutOnlyRedBlack == NoRedRed(root) /\ BlackBalanced(root)

PutOnlyRedBlackWitness ==
    op.name = "put" /\ ~op.had /\ size(root) >= 6 /\ HasRed(root)

\* C4: after puts alone that leave n keys, 2^depth <= (n+1)^2; the ShapeN
\* ascending puts of test_red_black_tree_shape give size ShapeN, depth <= 8.
PutOnlyDepthBound ==
    /\ 2 ^ depth(root) <= (size(root) + 1) * (size(root) + 1)
    /\ (op.name = "put_asc" /\ op.key = ShapeN - 1)
          => size(root) = ShapeN /\ depth(root) <= 8

PutOnlyDepthBoundWitness ==
    op.name = "put_asc" /\ op.key = ShapeN - 1 /\ size(root) = ShapeN

\* C5: in every state reachable by put, delete, delete_min and delete_max,
\* every path from the root to an absent link has the same number of Black
\* nodes.
BlackBalanceAlways == BlackBalanced(root)

\* C6: after put(k, v), get(k) is v, get(j) is unchanged for every other key
\* j, and size() is one larger if k was absent and unchanged if it was stored.
PutGetRoundTrip ==
    [][IsPut(op') =>
         /\ get(root', op'.key) = Some(op'.val)
         /\ \A j \in QueryKeys \ {op'.key} : get(root', j) = get(root, j)
         /\ size(root') = IF op'.key \in KeysOf(root) THEN size(root)
                          ELSE size(root) + 1]_vars

\* the leftmost node below (and including) node n
RECURSIVE Leftmost(_)
Leftmost(n) == IF n.left = None THEN n ELSE Leftmost(n.left[1])

\* the path of "L"/"R" turns from x down to the node that stores key
RECURSIVE PathTo(_, _)
PathTo(x, key) ==
    IF x = None \/ key = x[1].key THEN <<>>
    ELSE IF key < x[1].key THEN <<"L">> \o PathTo(x[1].left, key)
    ELSE <<"R">> \o PathTo(x[1].right, key)

\* the link reached from x by following path
RECURSIVE LinkAt(_, _)
LinkAt(x, path) ==
    IF path = <<>> \/ x = None THEN x
    ELSE IF Head(path) = "L" THEN LinkAt(x[1].left, Tail(path))
    ELSE LinkAt(x[1].right, Tail(path))

\* C7: delete(k) of a stored k removes exactly k (k is gone, size is one
\* less, every other key keeps its value); when k's node has two children
\* its place is taken by the minimum node of its right subtree, with that
\* node's key and value and the deleted node's left subtree as left link.
DeleteRemovesExactly ==
    [][(op'.name = "delete" /\ op'.key \in KeysOf(root)) =>
         LET k == op'.key
             t == LinkOf(root, k)
         IN  /\ ~contains(root', k)
             /\ size(root') = size(root) - 1
             /\ Pairs(root') = {p \in Pairs(root) : p[1] # k}
             /\ \A j \in QueryKeys \ {k} : get(root', j) = get(root, j)
             /\ (t[1].left # None /\ t[1].right # None) =>
                  LET m == Leftmost(t[1].right[1])
                      r == LinkAt(root', PathTo(root, k))
                  IN  /\ r # None
                      /\ r[1].key = m.key
                      /\ r[1].val = m.val
                      /\ r[1].left = t[1].left]_vars

DeleteRemovesExactlyWitness ==
    op.name = "delete" /\ op.had /\ op.two /\ size(root) >= 3

\* C8: delete(k) of a key that is not stored (also on the empty tree) leaves
\* the tree as it was: same shape, keys, values and colors.
DeleteAbsentUnchanged ==
    [][(op'.name = "delete" /\ op'.key \notin KeysOf(root)) => root' = root]_vars

DeleteAbsentUnchangedWitness ==
    op.name = "delete" /\ ~op.had /\ depth(root) >= 3 /\ HasRed(root)

SetMin(S) == CHOOSE m \in S : \A k \in S : m <= k
SetMax(S) == CHOOSE m \in S : \A k \in S : m >= k

\* C9: delete_min (delete_max) on a non-empty tree removes exactly the
\* smallest (largest) key: size is one less and every other key keeps its
\* value; on the empty tree it leaves the tree empty.
DeleteMinMaxExact ==
    [][/\ (op'.name = "delete_min" /\ root = None) => root' = None
       /\ (op'.name = "delete_max" /\ root = None) => root' = None
       /\ (op'.name = "delete_min" /\ root # None) =>
            /\ size(root') = size(root) - 1
            /\ Pairs(root') = {p \in Pairs(root) : p[1] # SetMin(KeysOf(root))}
       /\ (op'.name = "delete_max" /\ root # None) =>
            /\ size(root') = size(root) - 1
            /\ Pairs(root') = {p \in Pairs(root) : p[1] # SetMax(KeysOf(root))}
      ]_vars

DeleteMinMaxExactWitness ==
    op.name = "delete_max" /\ op.had /\ size(root) >= 3 /\ depth(root) >= 3

\* C10: rank(key) is the number of stored keys strictly less than key, for
\* every key, stored or not (0 on the empty tree).
RankCountsSmaller ==
    \A key \in QueryKeys :
        rank(root, key) = Cardinality({k \in KeysOf(root) : k < key})

RankCountsSmallerWitness ==
    /\ op.name = "delete" /\ op.had
    /\ size(root) = 3
    /\ rank(root, op.key) \in 1..2
    /\ rank(root, MaxKey + 1) = 3

\* C11: for every k in [0, size()) select(k) is the k-th smallest stored key
\* (exactly k stored keys are smaller) and rank(select(k)) = k; for every
\* k >= size() select(k) is absent.
SelectRankDuality ==
    /\ \A k \in 0..(size(root) - 1) :
         LET sk == select(root, k)
         IN  /\ sk # None
             /\ sk[1] \in KeysOf(root)
             /\ Cardinality({j \in KeysOf(root) : j < sk[1]}) = k
             /\ rank(root, sk[1]) = k
    /\ \A k \in size(root)..(MaxKey + 1) : select(root, k) = None

SelectRankDualityWitness ==
    /\ op.name = "delete" /\ op.had
    /\ size(root) = 3
    /\ select(root, 2) = Some(MaxKey)
    /\ select(root, 3) = None

\* C12: floor(key) is the largest stored key <= key and ceiling(key) the
\* smallest stored key >= key, each absent when there is no such key.
FloorCeilingExact ==
    \A key \in QueryKeys :
        LET below == {k \in KeysOf(root) : k <= key}
            above == {k \in KeysOf(root) : k >= key}
        IN  /\ RedBlackBST_floor(root, key) =
                 IF below = {} THEN None ELSE Some(SetMax(below))
            /\ RedBlackBST_ceiling(root, key) =
                 IF above = {} THEN None ELSE Some(SetMin(above))

\* a stored key between two absent ones, nothing below the minimum
FloorCeilingExactWitness ==
    /\ op.name = "delete" /\ op.had /\ op.key = 2
    /\ size(root) = 3
    /\ RedBlackBST_floor(root, 2) = Some(1)
    /\ RedBlackBST_ceiling(root, 2) = Some(3)
    /\ RedBlackBST_floor(root, 0) = None
    /\ RedBlackBST_ceiling(root, MaxKey + 1) = None

\* C13: keys() yields every stored key exactly once in strictly ascending
\* order (its length is size()); min() and max() are its first and last
\* element and are absent exactly when the tree is empty.
KeysAscending ==
    LET ks == keys(root)
    IN  /\ Len(ks) = size(root)
        /\ {ks[i] : i \in 1..Len(ks)} = KeysOf(root)
        /\ \A i \in 1..(Len(ks) - 1) : ks[i] < ks[i + 1]
        /\ RedBlackBST_min(root) = IF root = None THEN None ELSE Some(ks[1])
        /\ RedBlackBST_max(root) = IF root = None THEN None ELSE Some(ks[Len(ks)])

KeysAscendingWitness ==
    /\ op.name = "delete_min" /\ op.had
    /\ Len(keys(root)) = 3
    /\ depth(root) = 3
    /\ RedBlackBST_max(root) = Some(MaxKey)

\* C17: on return from every put, in any state reachable by put, delete,
\* delete_min and delete_max, the root exists and is Black (a put that
\* panics does not return).
PutRootBlack ==
    (IsPut(op) /\ ~panicked) => (root # None /\ root[1].color = Black)

\* a put has returned to a tree whose root a deletion had left Red, or
\* whose fix-up ended with a color flip at the root
PutRootBlackWitness ==
    /\ op.name = "put" /\ ~op.had /\ ~panicked
    /\ size(root) >= 3
    /\ root[1].color = Black
    /\ ~is_red(root[1].left) /\ ~is_red(root[1].right)

RECURSIVE NoRedRight(_)
NoRedRight(x) ==
    \/ x = None
    \/ /\ ~is_red(x[1].right)
       /\ NoRedRight(x[1].left)
       /\ NoRedRight(x[1].right)

\* C18: after any sequence of put calls alone no node has a Red right child
\* (every Red link is a left link).
PutOnlyLeftLeaning == NoRedRight(root)

\* a key larger than every stored key was just put and the tree has Red
\* (left) links
PutOnlyLeftLeaningWitness ==
    /\ op.name = "put" /\ ~op.had
    /\ RedBlackBST_max(root) = Some(op.key)
    /\ size(root) >= 4
    /\ HasRed(root)

\* the points put so far
PutPoints == {q[1] : q \in kput}

SeqSet(sq) == {sq[i] : i \in 1..Len(sq)}

\* C14: after any sequence of KdTree put calls contains(p) is true and get(p)
\* is the value last put for p, for every point p that was put; contains(q)
\* is false for every point q never put; size() is the number of distinct
\* points put (putting a stored point again does not change it).
KdPutContains ==
    kop.name = "put" =>
      /\ \A p \in Points :
           LET g == KdTree_get(kroot, p)
               c == KdTree_contains(kroot, p)
           IN  /\ ~g.panic /\ ~c.panic
               /\ \A v \in Vals : <<p, v>> \in kput => (c.res /\ g.val = Some(v))
               /\ p \notin PutPoints => (~c.res /\ g.val = None)
      /\ KdTree_size(kroot) = Cardinality(PutPoints)

\* the rectangles with corners on the grid
Rects ==
    {[xmin |-> a, ymin |-> b, xmax |-> c, ymax |-> d] :
        a \in Coords, b \in Coords, c \in Coords, d \in Coords}

\* p comes before q in the derived ordering of Point2D (x, then y)
PointLess(p, q) == p[1] < q[1] \/ (p[1] = q[1] /\ p[2] < q[2])

\* the points of S in ascending order: what keys() of the PointSet's
\* RedBlackBST yields
RECURSIVE PsetKeys(_)
PsetKeys(S) ==
    IF S = {} THEN <<>>
    ELSE LET m == CHOOSE p \in S : \A q \in S \ {p} : PointLess(p, q)
         IN  <<m>> \o PsetKeys(S \ {m})

\* C15: after any sequence of put calls range_search(rect) returns exactly
\* the stored points inside rect (boundaries inclusive), each once;
\* range_count(rect) is their number; both agree with PointSet.range_search
\* over the same points.
KdRangeSearchExact ==
    \A rect \in Rects :
        LET rs == KdTree_range_search(kroot, rect)
            inside == {p \in PutPoints : RectHV_contains(rect, p)}
            brute == PointSet_range_search(PsetKeys(PutPoints), rect)
        IN  /\ SeqSet(rs) = inside
            /\ Len(rs) = Cardinality(inside)
            /\ KdTree_range_count(kroot, rect) = Cardinality(inside)
            /\ SeqSet(rs) = SeqSet(brute)
            /\ Len(rs) = Len(brute)

\* C16: nearest(p) is none on an empty tree and otherwise a stored point at
\* minimal distance from p, the distance PointSet.nearest finds.
KdNearestExact ==
    \A p \in Points :
        LET r == KdTree_nearest(kroot, p)
            brute == PointSet_nearest(PsetKeys(PutPoints), p)
        IN  IF kroot = None THEN r = None
            ELSE /\ r # None
                 /\ r[1] \in PutPoints
                 /\ \A q \in PutPoints :
                      distance_squared_to(r[1], p) <= distance_squared_to(q, p)
                 /\ brute # None
                 /\ distance_squared_to(r[1], p) = distance_squared_to(brute[1], p)

\* C19: KdTree.delete(key) removes exactly the stored point equal to key in
\* every coordinate: it is no longer in keys(), every other stored point
\* still is, size() is one less; when no stored point equals key the stored
\* points are unchanged.
KdDeleteExact ==
    [][kop'.name = "delete" =>
         LET k == kop'.key
             before == SeqSet(KdTree_keys(kroot))
             after == SeqSet(KdTree_keys(kroot'))
         IN  IF k \in before
             THEN /\ after = before \ {k}
                  /\ KdTree_size(kroot') = KdTree_size(kroot) - 1
             ELSE /\ after = before
                  /\ KdTree_size(kroot') = KdTree_size(kroot)]_vars

====
